---- MODULE Spec2Model ----
(***************************************************************************)
(* Hertel-Mehlhorn convex decomposition (guessing_game/src/main.rs):       *)
(* ear-clipping triangulation, shared-edge index, greedy convex merge.     *)
(*                                                                         *)
(* Coordinates are small non-negative integers.  Every f64 operation of    *)
(* the source (subtraction, multiplication, comparison) is exact on such   *)
(* values, so integer arithmetic computes what the program computes.      *)
(* A point is a pair <<x, y>>, a polygon is the sequence of the stored     *)
(* coordinates of its exterior ring (closing point included).  Sequences   *)
(* are 1-based here and 0-based in the source; operators that take or      *)
(* return a source index keep it 0-based.                                  *)
(***************************************************************************)
EXTENDS Integers, Sequences, FiniteSets, TLC

VARIABLES
    input,            \* the coordinate list the caller builds the polygon from
    pc,               \* position of the program
    coords,           \* triangulate: the working vertex list
    triangles,        \* triangulate: the triangles emitted so far / its result
    pending,          \* hertel_mehlhorn: shared-edge records not yet visited
    merged_polygons,  \* hertel_mehlhorn: the growable polygon list
    to_remove,        \* hertel_mehlhorn: the retirement flags
    merged_polygon,   \* the polygon last handed to is_polygon_convex
    verdict,          \* what is_polygon_convex answered for it
    calls,            \* the merge_polygons invocations so far, as <<t1, t2>>
    merges,           \* the successful merges so far, as <<t1, t2>>
    result            \* the value hertel_mehlhorn returned

vars == <<input, pc, coords, triangles, pending, merged_polygons, to_remove,
          merged_polygon, verdict, calls, merges, result>>

\* ------------------------------------------------------------------ bounds

\* input rings have at most MaxVerts points
MaxVerts == 7
\* find_shared_edges is exercised on lists of at most MaxTris triangles
MaxTris == 3

\* the coordinate values of the polygons the tests decompose: the square,
\* the concave pentagon and the triangle all lie on this 3 x 3 lattice
TestCoords == {0, 2, 4}

\* the points inputs are drawn from
Coord == TestCoords \X TestCoords

\* ------------------------------------------------------- sequence helpers

Last(s) == s[Len(s)]

\* a removal that is off by one: the successor of position i goes
RemoveNext(s, i) == SubSeq(s, 1, i + 1) \o SubSeq(s, i + 3, Len(s))

\* Vec::remove(i), i 0-based
RemoveAt(s, i) == SubSeq(s, 1, i) \o SubSeq(s, i + 2, Len(s))

RECURSIVE Dedup(_)
\* Vec::dedup_by(|a, b| a == b): of each run of equal consecutive elements
\* the first is kept
Dedup(s) ==
    IF Len(s) <= 1 THEN s
    ELSE LET d == Dedup(SubSeq(s, 1, Len(s) - 1))
         IN  IF Last(s) = Last(d) THEN d ELSE Append(d, Last(s))

Abs(n) == IF n < 0 THEN -n ELSE n

\* Polygon::new(LineString::from(points), vec![]): the exterior ring is
\* closed on construction (the first point is appended unless first == last)
PolygonNew(points) ==
    IF Len(points) = 0 \/ points[1] = Last(points)
    THEN points ELSE Append(points, points[1])

\* ---------------------------------------------------- geometric predicates

cross_product(p1, p2, p3) ==
    (p2[1] - p1[1]) * (p3[2] - p2[2]) - (p2[2] - p1[2]) * (p3[1] - p2[1])

is_convex(p1, p2, p3) == cross_product(p1, p2, p3) >= 0

point_in_triangle(pt, v1, v2, v3) ==
    LET d1 == cross_product(v1, v2, pt)
        d2 == cross_product(v2, v3, pt)
        d3 == cross_product(v3, v1, pt)
    IN  (d1 >= 0 /\ d2 >= 0 /\ d3 >= 0) \/ (d1 <= 0 /\ d2 <= 0 /\ d3 <= 0)

\* an ear test that never looks at the other vertices
is_ear_unchecked(cs, prev_idx, curr_idx, next_idx) == TRUE

\* indices 0-based
is_ear(cs, prev_idx, curr_idx, next_idx) ==
    \A i \in 0..(Len(cs) - 1) :
        (i = prev_idx \/ i = curr_idx \/ i = next_idx)
        \/ ~point_in_triangle(cs[i + 1], cs[prev_idx + 1], cs[curr_idx + 1],
                              cs[next_idx + 1])

\* is_polygon_convex: the loop runs over every stored coordinate of the
\* ring, the closing point included, with indices taken modulo the stored
\* length
is_polygon_convex(ring) ==
    LET len == Len(ring)
    IN  \A i \in 0..(len - 1) :
            is_convex(ring[((i + len - 1) % len) + 1], ring[i + 1],
                      ring[((i + 1) % len) + 1])

\* ------------------------------------------------------------- triangulate

PrevIdx(cs, i) == (i + Len(cs) - 1) % Len(cs)
NextIdx(cs, i) == (i + 1) % Len(cs)

\* the condition of lines 230-232 at index i (0-based)
IsEarAt(cs, i) ==
    /\ is_convex(cs[PrevIdx(cs, i) + 1], cs[i + 1], cs[NextIdx(cs, i) + 1])
    /\ is_ear(cs, PrevIdx(cs, i), i, NextIdx(cs, i))

EarIndices(cs) == {i \in 0..(Len(cs) - 1) : IsEarAt(cs, i)}

\* the scan of lines 221-244 stops at the first index that passes
FirstEar(cs) == CHOOSE i \in EarIndices(cs) : \A j \in EarIndices(cs) : i <= j

\* line 234
EarRing(cs, i) ==
    <<cs[PrevIdx(cs, i) + 1], cs[i + 1], cs[NextIdx(cs, i) + 1],
      cs[PrevIdx(cs, i) + 1]>>

\* lines 203-213, the polygon accepted
Start ==
    /\ pc = "start"
    /\ Len(PolygonNew(input)) >= 4
    /\ coords' = LET cs == PolygonNew(input)
                 IN  IF cs[1] = Last(cs) THEN SubSeq(cs, 1, Len(cs) - 1) ELSE cs
    /\ pc' = "ears"
    /\ UNCHANGED <<input, triangles, pending, merged_polygons, to_remove,
                   merged_polygon, verdict, calls, merges, result>>

\* lines 206-208
StartPanic ==
    /\ pc = "start"
    /\ Len(PolygonNew(input)) < 4
    /\ pc' = "panic"
    /\ UNCHANGED <<input, coords, triangles, pending, merged_polygons,
                   to_remove, merged_polygon, verdict, calls, merges, result>>

\* one iteration of the while loop that finds an ear (lines 218-244)
ClipEar ==
    /\ pc = "ears"
    /\ Len(coords) > 3
    /\ EarIndices(coords) # {}
    /\ LET i == FirstEar(coords)
       IN  /\ triangles' = Append(triangles, PolygonNew(EarRing(coords, i)))
           /\ coords' = RemoveAt(coords, i)
    /\ UNCHANGED <<input, pc, pending, merged_polygons, to_remove,
                   merged_polygon, verdict, calls, merges, result>>

\* one iteration of the while loop that finds none (lines 246-248)
NoEar ==
    /\ pc = "ears"
    /\ Len(coords) > 3
    /\ EarIndices(coords) = {}
    /\ pc' = "panic"
    /\ UNCHANGED <<input, coords, triangles, pending, merged_polygons,
                   to_remove, merged_polygon, verdict, calls, merges, result>>

\* lines 251-255
FinalTriangle ==
    /\ pc = "ears"
    /\ Len(coords) <= 3
    /\ triangles' = Append(triangles,
                       PolygonNew(<<coords[1], coords[2], coords[3], coords[1]>>))
    /\ pc' = "shared"
    /\ UNCHANGED <<input, coords, pending, merged_polygons, to_remove,
                   merged_polygon, verdict, calls, merges, result>>

\* ------------------------------------------------------- find_shared_edges

\* (OrderedFloat, OrderedFloat) tuples compare lexicographically
PointLess(p, q) == p[1] < q[1] \/ (p[1] = q[1] /\ p[2] < q[2])

\* an edge left in the direction the triangle runs it
normalized_edge_asis(edge) == edge

\* line 87
normalized_edge(edge) ==
    IF PointLess(edge[1], edge[2]) THEN edge ELSE <<edge[2], edge[1]>>

\* lines 82-87: edge j (0-based) of a triangle, normalized
TriangleEdge(tri, j) == normalized_edge(<<tri[j + 1], tri[((j + 1) % 3) + 1]>>)

\* the pushes of line 88 in the order they happen: push k (1-based) is made
\* for triangle (k-1) \div 3, edge (k-1) % 3
Pushes(tris) == [k \in 1..(3 * Len(tris)) |-> <<(k - 1) \div 3, (k - 1) % 3>>]

\* edge_map[e] after the loop of lines 80-90: the owning indices, in push order
EdgeOwners(tris, e) ==
    LET hit(p) == TriangleEdge(tris[p[1] + 1], p[2]) = e
        ps == SelectSeq(Pushes(tris), hit)
    IN  [k \in 1..Len(ps) |-> ps[k][1]]

\* the keys of edge_map
EdgeKeys(tris) ==
    {TriangleEdge(tris[i], j) : i \in 1..Len(tris), j \in 0..2}

\* lines 92-101; the records as a set, since the order in which a HashMap
\* yields them is not determined.  A record is <<edge, t1, t2>>.
find_shared_edges(tris) ==
    {<<e, EdgeOwners(tris, e)[1], EdgeOwners(tris, e)[2]>> :
        e \in {k \in EdgeKeys(tris) : Len(EdgeOwners(tris, k)) = 2}}

\* hertel_mehlhorn lines 18-26
FindSharedEdges ==
    /\ pc = "shared"
    /\ pending' = find_shared_edges(triangles)
    /\ merged_polygons' = triangles
    /\ to_remove' = [k \in 1..Len(triangles) |-> FALSE]
    /\ pc' = "merge"
    /\ UNCHANGED <<input, coords, triangles, merged_polygon, verdict, calls,
                   merges, result>>

\* ---------------------------------------------------------- merge_polygons

\* the windows(2) positions (0-based) at which the edge occurs, either way
SharedEdgePositions(cs, shared_start, shared_end) ==
    {k \in 0..(Len(cs) - 2) :
        \/ (cs[k + 1] = shared_start /\ cs[k + 2] = shared_end)
        \/ (cs[k + 1] = shared_end /\ cs[k + 2] = shared_start)}

\* .position(..): the first of them; -1 stands for None, on which expect panics
find_shared_edge(cs, shared_start, shared_end) ==
    LET ps == SharedEdgePositions(cs, shared_start, shared_end)
    IN  IF ps = {} THEN -1 ELSE CHOOSE k \in ps : \A j \in ps : k <= j

reorder_polygon(cs, shared_edge_idx) ==
    LET after_shared_edge ==
            IF shared_edge_idx + 1 < Len(cs)
            THEN SubSeq(cs, shared_edge_idx + 2, Len(cs)) ELSE <<>>
    IN  after_shared_edge \o SubSeq(cs, 1, shared_edge_idx + 1)

\* lines 106-140, given that both positions were found
merge_polygons(p1, p2, shared_edge) ==
    LET shared_start == shared_edge[1]
        shared_end == shared_edge[2]
        shared_idx1 == find_shared_edge(p1, shared_start, shared_end)
        shared_idx2 == find_shared_edge(p2, shared_start, shared_end)
        keep(c) == c # shared_start /\ c # shared_end
        joined == reorder_polygon(p1, shared_idx1)
                  \o SelectSeq(reorder_polygon(p2, shared_idx2), keep)
    IN  PolygonNew(Dedup(Append(joined, joined[1])))

\* whether the expect of line 153 panics inside merge_polygons.  The edge of
\* a record was read off the very rings it is looked up in, so it is always
\* found; the merge steps below state this as their guard.
MergePanics(p1, p2, shared_edge) ==
    \/ find_shared_edge(p1, shared_edge[1], shared_edge[2]) = -1
    \/ find_shared_edge(p2, shared_edge[1], shared_edge[2]) = -1

\* ---------------------------------------------------------- hertel_mehlhorn

\* a skip test that looks at the first owner only
AlreadyMergedFirstOnly(flags, t1, t2) == flags[t1 + 1]

\* line 30, t1 and t2 0-based
AlreadyMerged(flags, t1, t2) == flags[t1 + 1] \/ flags[t2 + 1]

\* lines 45-49
Retire(flags, t1, t2) ==
    Append([k \in 1..Len(flags) |->
               IF k = t1 + 1 \/ k = t2 + 1 THEN TRUE ELSE flags[k]], FALSE)

\* a filter with the flag inverted: the retired polygons are kept
FinalPolygonsInverted(polys, flags) ==
    LET kept == SelectSeq([k \in 1..Len(polys) |-> k], LAMBDA k : flags[k])
    IN  [k \in 1..Len(kept) |-> polys[kept[k]]]

\* lines 61-66
FinalPolygons(polys, flags) ==
    LET kept == SelectSeq([k \in 1..Len(polys) |-> k], LAMBDA k : ~flags[k])
    IN  [k \in 1..Len(kept) |-> polys[kept[k]]]

\* lines 28-32: the record is skipped
MergeSkip ==
    /\ pc = "merge"
    /\ \E r \in pending :
        /\ AlreadyMerged(to_remove, r[2], r[3])
        /\ pending' = pending \ {r}
    /\ UNCHANGED <<input, pc, coords, triangles, merged_polygons, to_remove,
                   merged_polygon, verdict, calls, merges, result>>

\* lines 35-49: the merged polygon passes is_polygon_convex
MergeAccept ==
    /\ pc = "merge"
    /\ \E r \in pending :
        /\ ~AlreadyMerged(to_remove, r[2], r[3])
        /\ ~MergePanics(merged_polygons[r[2] + 1], merged_polygons[r[3] + 1], r[1])
        /\ LET m == merge_polygons(merged_polygons[r[2] + 1],
                                   merged_polygons[r[3] + 1], r[1])
           IN  /\ is_polygon_convex(m)
               /\ merged_polygon' = m
               /\ verdict' = TRUE
               /\ merged_polygons' = Append(merged_polygons, m)
               /\ to_remove' = Retire(to_remove, r[2], r[3])
               /\ calls' = Append(calls, <<r[2], r[3]>>)
               /\ merges' = Append(merges, <<r[2], r[3]>>)
        /\ pending' = pending \ {r}
    /\ UNCHANGED <<input, pc, coords, triangles, result>>

\* lines 35-38, 50-52: it does not
MergeReject ==
    /\ pc = "merge"
    /\ \E r \in pending :
        /\ ~AlreadyMerged(to_remove, r[2], r[3])
        /\ ~MergePanics(merged_polygons[r[2] + 1], merged_polygons[r[3] + 1], r[1])
        /\ LET m == merge_polygons(merged_polygons[r[2] + 1],
                                   merged_polygons[r[3] + 1], r[1])
           IN  /\ ~is_polygon_convex(m)
               /\ merged_polygon' = m
               /\ verdict' = FALSE
               /\ calls' = Append(calls, <<r[2], r[3]>>)
        /\ pending' = pending \ {r}
    /\ UNCHANGED <<input, pc, coords, triangles, merged_polygons, to_remove,
                   merges, result>>

\* lines 56-73
Finish ==
    /\ pc = "merge"
    /\ pending = {}
    /\ result' = FinalPolygons(merged_polygons, to_remove)
    /\ pc' = "done"
    /\ UNCHANGED <<input, coords, triangles, pending, merged_polygons,
                   to_remove, merged_polygon, verdict, calls, merges>>

\* ------------------------------------------------------------------ inputs

\* twice the signed shoelace area of a stored (closed) ring
RECURSIVE Shoelace(_)
Shoelace(ring) ==
    IF Len(ring) < 2 THEN 0
    ELSE LET n == Len(ring)
         IN  Shoelace(SubSeq(ring, 1, n - 1))
             + ring[n - 1][1] * ring[n][2] - ring[n][1] * ring[n - 1][2]

\* twice the area of a polygon
Area2(ring) == Abs(Shoelace(PolygonNew(ring)))

Dot(a, b, c) == (a[1] - b[1]) * (c[1] - b[1]) + (a[2] - b[2]) * (c[2] - b[2])

\* c lies on the closed segment ab
OnSegment(a, b, c) == cross_product(a, b, c) = 0 /\ Dot(a, c, b) <= 0

\* the closed segments ab and cd have a common point
SegmentsMeet(a, b, c, d) ==
    LET d1 == cross_product(a, b, c)
        d2 == cross_product(a, b, d)
        d3 == cross_product(c, d, a)
        d4 == cross_product(c, d, b)
    IN  \/ (d1 * d2 < 0 /\ d3 * d4 < 0)
        \/ OnSegment(a, b, c) \/ OnSegment(a, b, d)
        \/ OnSegment(c, d, a) \/ OnSegment(c, d, b)

\* the edge from the end of the chain q to c touches the rest of the chain
\* only at that end: it does not fold back on the edge before it and does
\* not meet any earlier edge
ExtendsSimply(q, c) ==
    LET m == Len(q)
    IN  /\ \A k \in 1..m : q[k] # c
        /\ m >= 2 => ~(cross_product(q[m - 1], q[m], c) = 0
                        /\ Dot(q[m - 1], q[m], c) > 0)
        /\ \A i \in 1..(m - 2) : ~SegmentsMeet(q[i], q[i + 1], q[m], c)

RECURSIVE SimpleChains(_)
\* the open chains of n distinct points of Coord that do not touch themselves
SimpleChains(n) ==
    IF n = 0 THEN {<<>>}
    ELSE UNION {{Append(q, c) : c \in {d \in Coord : ExtendsSimply(q, d)}} :
                   q \in SimpleChains(n - 1)}

\* the edge that closes the chain p touches the chain only at its two ends
ClosesSimply(p) ==
    LET n == Len(p)
    IN  /\ ~(cross_product(p[n - 1], p[n], p[1]) = 0
              /\ Dot(p[n - 1], p[n], p[1]) > 0)
        /\ ~(cross_product(p[n], p[1], p[2]) = 0 /\ Dot(p[n], p[1], p[2]) > 0)
        /\ \A i \in 2..(n - 2) : ~SegmentsMeet(p[i], p[i + 1], p[n], p[1])

IsCounterClockwise(p) == Shoelace(PolygonNew(p)) > 0

\* the inputs the algorithm is specified for: the simple (no two edges meet
\* except consecutive ones in their common vertex), counter-clockwise rings
\* of n distinct points of Coord, from every starting vertex
ValidPolygons(n) ==
    {p \in SimpleChains(n) : ClosesSimply(p) /\ IsCounterClockwise(p)}

InitRest ==
    /\ coords = <<>>
    /\ triangles = <<>>
    /\ pending = {}
    /\ merged_polygons = <<>>
    /\ to_remove = <<>>
    /\ merged_polygon = <<>>
    /\ verdict = FALSE
    /\ calls = <<>>
    /\ merges = <<>>
    /\ result = <<>>

Init ==
    /\ \E n \in 3..MaxVerts : input \in ValidPolygons(n)
    /\ pc = "start"
    /\ InitRest

Next ==
    \/ Start
    \/ ClipEar
    \/ FinalTriangle
    \/ FindSharedEdges
    \/ MergeSkip
    \/ MergeAccept
    \/ MergeReject
    \/ Finish

Spec == Init /\ [][Next]_vars

\* ------------------------------------------------- other ways of entering

\* rings of n points with fewer than 3 distinct vertices, as a caller may
\* hand them in
DegenerateRings(n) ==
    UNION {[1..n -> S] : S \in {T \in SUBSET Coord : Cardinality(T) \in {1, 2}}}

InitDegenerate ==
    /\ \E n \in 0..MaxVerts : input \in DegenerateRings(n)
    /\ pc = "start"
    /\ InitRest

NextDegenerate ==
    \/ Start
    \/ StartPanic
    \/ NoEar
    \/ FinalTriangle
    \/ FindSharedEdges
    \/ MergeAccept
    \/ Finish

\* hertel_mehlhorn on a ring with fewer than 3 distinct vertices
SpecDegenerate == InitDegenerate /\ [][NextDegenerate]_vars

\* the points of tests::test_shared_edge_detection
EdgePoints == {<<0, 0>>, <<1, 1>>, <<2, 0>>, <<2, 2>>}

\* triangles with 3 distinct vertices, in either orientation, as stored
TestTriangles ==
    {PolygonNew(t) : t \in {u \in [1..3 -> EdgePoints] :
                               u[1] # u[2] /\ u[2] # u[3] /\ u[1] # u[3]}}

TriangleLists(n) == [1..n -> TestTriangles]

InitEdges ==
    /\ input = <<>>
    /\ pc = "shared"
    /\ \E n \in 1..MaxTris : triangles \in TriangleLists(n)
    /\ coords = <<>>
    /\ pending = {}
    /\ merged_polygons = <<>>
    /\ to_remove = <<>>
    /\ merged_polygon = <<>>
    /\ verdict = FALSE
    /\ calls = <<>>
    /\ merges = <<>>
    /\ result = <<>>

NextEdges == FindSharedEdges

\* find_shared_edges on any list of triangles
SpecEdges == InitEdges /\ [][NextEdges]_vars

\* tests::test_convexity_check: is_polygon_convex called on a polygon
ConvexCheck ==
    /\ pc = "convex"
    /\ verdict' = is_polygon_convex(merged_polygon)
    /\ pc' = "convex_done"
    /\ UNCHANGED <<input, coords, triangles, pending, merged_polygons,
                   to_remove, merged_polygon, calls, merges, result>>

InitConvex ==
    /\ \E n \in 3..MaxVerts : \E p \in ValidPolygons(n) :
           merged_polygon = PolygonNew(p)
    /\ pc = "convex"
    /\ input = <<>>
    /\ coords = <<>>
    /\ triangles = <<>>
    /\ pending = {}
    /\ merged_polygons = <<>>
    /\ to_remove = <<>>
    /\ verdict = FALSE
    /\ calls = <<>>
    /\ merges = <<>>
    /\ result = <<>>

NextConvex == ConvexCheck

\* is_polygon_convex on any closed ring
SpecConvex == InitConvex /\ [][NextConvex]_vars

\* ------------------------------------------------------ the claims' terms

Range(s) == {s[k] : k \in 1..Len(s)}

\* the distinct boundary vertices of a stored ring: the closing point dropped
DistinctVertices(ring) ==
    IF Len(ring) > 1 /\ ring[1] = Last(ring)
    THEN SubSeq(ring, 1, Len(ring) - 1) ELSE ring

\* the orientation test at vertex i (1-based) of a ring of distinct vertices,
\* against its cyclic predecessor and successor
TurnAt(o, i) ==
    cross_product(o[((i + Len(o) - 2) % Len(o)) + 1], o[i], o[(i % Len(o)) + 1])

\* no vertex of the ring is reflex
ConvexAtEveryVertex(ring) ==
    \A i \in 1..Len(DistinctVertices(ring)) : TurnAt(DistinctVertices(ring), i) >= 0

\* the number of vertices of the input polygon
NumVertices == Len(DistinctVertices(PolygonNew(input)))

RECURSIVE SumArea2(_)
SumArea2(polys) ==
    IF polys = <<>> THEN 0
    ELSE Area2(polys[1]) + SumArea2(SubSeq(polys, 2, Len(polys)))

Returned == pc = "done"
Triangulated == pc \in {"shared", "merge", "done"}

\* ------------------------------------------------------------------ claims

\* C1: every polygon hertel_mehlhorn returns for a simple counter-clockwise
\* input has no reflex vertex, the vertex its ring starts at included.
C1_OutputConvex ==
    Returned => \A k \in 1..Len(result) : ConvexAtEveryVertex(result[k])

\* C2: a convex counter-clockwise input with n >= 3 vertices comes back as
\* exactly one polygon with the input's vertex set.
C2_ConvexInputOnePiece ==
    (Returned /\ ConvexAtEveryVertex(PolygonNew(input)))
        => (Len(result) = 1 /\ Range(result[1]) = Range(input))

\* C3: an input with a reflex vertex comes back as more than one polygon,
\* whichever vertex its ring starts at.
C3_ReflexInputSplits ==
    (Returned /\ ~ConvexAtEveryVertex(PolygonNew(input))) => Len(result) > 1

\* C4: area is conserved: the triangles' areas sum to the input's area, so
\* do the returned polygons' areas, and every merged polygon has the area of
\* the two triangles it retired.
C4_AreaConserved ==
    /\ Triangulated => SumArea2(triangles) = Area2(input)
    /\ Returned => SumArea2(result) = Area2(input)
    /\ \A k \in 1..Len(merges) :
           Area2(merged_polygons[Len(triangles) + k])
               = Area2(triangles[merges[k][1] + 1])
                 + Area2(triangles[merges[k][2] + 1])

C4_Witness ==
    /\ Returned
    /\ ~ConvexAtEveryVertex(PolygonNew(input))
    /\ Len(triangles) = 3
    /\ Len(merges) = 1
    /\ Area2(merged_polygons[4]) > 0

\* C5: the number of returned polygons is at least 1 and at most the number
\* of triangles, which is n - 2 for an n-vertex input.
C5_CountBound ==
    Returned => /\ Len(result) >= 1
                /\ Len(result) <= Len(triangles)
                /\ Len(triangles) = NumVertices - 2

C5_Witness ==
    Returned /\ NumVertices = 5 /\ Len(triangles) = 3 /\ Len(result) = 3

\* position k (1-based) of the working list is the one that was removed
RemovedAt(before, after, k) ==
    /\ Len(after) = Len(before) - 1
    /\ \A j \in 1..Len(after) :
           after[j] = IF j < k THEN before[j] ELSE before[j + 1]

\* the three vertices of a 4-point ring are prev, curr, next at position k
\* (1-based) of the working list
ConsecutiveAt(ring, cs, k) ==
    ring = <<cs[((k + Len(cs) - 2) % Len(cs)) + 1], cs[k], cs[(k % Len(cs)) + 1],
             cs[((k + Len(cs) - 2) % Len(cs)) + 1]>>

\* C9: triangulate returns n - 2 closed 4-point rings, each made of three
\* vertices consecutive in the working list when it was clipped; every loop
\* iteration removes exactly that one vertex or aborts, so there are at most
\* n - 3 clips.
C9_Triangulate ==
    /\ [](Triangulated =>
             /\ Len(triangles) = NumVertices - 2
             /\ \A k \in 1..Len(triangles) :
                    Len(triangles[k]) = 4 /\ triangles[k][1] = triangles[k][4])
    /\ [](pc = "ears" =>
             /\ Len(triangles) <= NumVertices - 3
             /\ Len(coords) + Len(triangles) = NumVertices)
    /\ [][(pc = "ears" /\ Len(coords) > 3) =>
             \/ pc' = "panic" /\ triangles' = triangles /\ coords' = coords
             \/ /\ pc' = "ears"
                /\ \E k \in 1..Len(coords) :
                       /\ Len(triangles') = Len(triangles) + 1
                       /\ SubSeq(triangles', 1, Len(triangles)) = triangles
                       /\ ConsecutiveAt(Last(triangles'), coords, k)
                       /\ RemovedAt(coords, coords', k)]_vars
    /\ [][(pc = "ears" /\ Len(coords) = 3) =>
             /\ pc' = "shared"
             /\ Len(triangles') = Len(triangles) + 1
             /\ \E k \in 1..3 : ConsecutiveAt(Last(triangles'), coords, k)]_vars

C9_Witness ==
    pc = "shared" /\ NumVertices = 5 /\ Len(triangles) = 3 /\ Len(coords) = 3

\* the indices (1-based) of the polygons whose flag is false
Active == {k \in 1..Len(to_remove) : ~to_remove[k]}

\* C10: in the merge pass a flag once true stays true, no polygon with a
\* true flag is handed to merge_polygons, no triangle is consumed by two
\* merges, an appended polygon is neither an operand nor retired, the flags
\* and the polygons have the same length, and the result is the polygons
\* with a false flag: triangles minus successful merges of them.
C10_Retirement ==
    /\ [](Len(to_remove) = Len(merged_polygons))
    /\ [](\A k \in 1..Len(to_remove) : k > Len(triangles) => ~to_remove[k])
    /\ [](\A k \in 1..Len(calls) :
              calls[k][1] < Len(triangles) /\ calls[k][2] < Len(triangles))
    /\ [](\A j, k \in 1..Len(merges) :
              j # k => {merges[j][1], merges[j][2]}
                           \cap {merges[k][1], merges[k][2]} = {})
    /\ [](Returned =>
              /\ Len(result) = Cardinality(Active)
              /\ Len(result) = Len(triangles) - Len(merges)
              /\ \A k \in Active :
                     result[Cardinality({a \in Active : a <= k})]
                         = merged_polygons[k])
    /\ [][\A k \in 1..Len(to_remove) :
              to_remove[k] => (k <= Len(to_remove') /\ to_remove'[k])]_vars
    /\ [][Len(calls') > Len(calls) =>
              /\ ~to_remove[Last(calls')[1] + 1]
              /\ ~to_remove[Last(calls')[2] + 1]]_vars

C10_Witness ==
    /\ Returned
    /\ Len(triangles) = 3
    /\ Len(merges) = 1
    /\ Len(calls) = 1
    /\ Len(result) = 2

\* the undirected boundary edges of a stored triangle
BoundaryEdges(tri) == {{tri[1], tri[2]}, {tri[2], tri[3]}, {tri[3], tri[1]}}

\* the indices (0-based) of the triangles that have the undirected edge
OwnersOf(tris, e) == {i \in 0..(Len(tris) - 1) : e \in BoundaryEdges(tris[i + 1])}

\* C6: find_shared_edges returns exactly one record for every undirected
\* edge that bounds exactly two triangles of the list, carrying their two
\* indices, and no record for any other edge.
C6_SharedEdges ==
    pc = "merge" =>
        /\ \A i \in 1..Len(triangles) : \A e \in BoundaryEdges(triangles[i]) :
               Cardinality(OwnersOf(triangles, e)) = 2 =>
                   /\ Cardinality({r \in pending : {r[1][1], r[1][2]} = e}) = 1
                   /\ \A r \in pending :
                          {r[1][1], r[1][2]} = e
                              => {r[2], r[3]} = OwnersOf(triangles, e)
        /\ \A r \in pending :
               Cardinality(OwnersOf(triangles, {r[1][1], r[1][2]})) = 2

C6_Witness ==
    /\ pc = "merge"
    /\ Len(triangles) = 3
    /\ pending # {}
    /\ \E e \in BoundaryEdges(triangles[1]) :
           Cardinality(OwnersOf(triangles, e)) = 3

\* C7: is_polygon_convex answers true exactly when the orientation test
\* passes at every distinct vertex of the ring, the one it starts at included.
C7_ConvexIffNoReflex ==
    pc = "convex_done" => (verdict <=> ConvexAtEveryVertex(merged_polygon))

\* C8: on a ring with fewer than 3 distinct vertices triangulate fails
\* fatally: it returns no triangle list, and hertel_mehlhorn no decomposition.
C8_DegenerateFails ==
    pc \in {"start", "ears", "panic"}

====
